---- MODULE Spec2Model ----
(***************************************************************************)
(* Model of ds_utils/evaluate.py: k-fold cross-validation                  *)
(* (cross_validate), the ensemble collector (get_cross_validation_models), *)
(* EnsembleRegressor.predict and optimize_ensemble.                        *)
(*                                                                         *)
(* Arrays are sequences (1-based positions; the code's 0-based index j is  *)
(* position j + 1).  A feature row is identified by its row id, targets    *)
(* are integers.  Floating point quotients are kept as exact fractions     *)
(* <<num, den>> in lowest terms, NaN is the string "nan".                  *)
(*                                                                         *)
(* Library behaviour the code relies on (scikit-learn / numpy as of the    *)
(* code's writing):                                                        *)
(*   - sklearn.utils.shuffle(x, y, random_state=r) checks that x and y     *)
(*     have the same length (ValueError otherwise) and returns both        *)
(*     indexed by one permutation drawn from a private RandomState(r);     *)
(*   - KFold(n_splits=k, random_state=s) has shuffle=False, so s is not    *)
(*     used: the folds are contiguous blocks, the first n % k of size      *)
(*     n // k + 1; k <= 1 and k > n raise ValueError;                      *)
(*   - np.mean of a 1-d array is a numpy scalar, which has no len();       *)
(*   - np.array(<generator>) is a 0-d object array holding the generator,  *)
(*     which is not iterated; len() of a 0-d array raises TypeError;       *)
(*   - float array / 0 gives nan (RuntimeWarning), not an exception.       *)
(***************************************************************************)
EXTENDS Integers, Sequences, FiniteSets, TLC

(* ------------------------------ bounds -------------------------------- *)
NumRows == 3
MaxFolds == 3
MaxRepeats == 2
MaxCalls == 2
MaxMembers == 3
MaxCoef == 3
MaxPreds == 2
MaxWeight == 1

(* ------------------------------ state --------------------------------- *)
VARIABLES
    model,        \* the caller's model object (fitted in place)
    heap,         \* objects held by reference: the pipeline's step estimator
    x_in, y_in,   \* the caller's features (row ids) and targets
    folds, repeats,
    rng,          \* RandomState(seed): seed -> the permutation it draws
    np_random,    \* the process-wide numpy random state
    pc,           \* position in the running function
    x, y,         \* the function's local x, y (rebound by shuffle)
    y_pred, score,
    r, i,
    ensemble,     \* EnsembleRegressor.models (list of model objects)
    total,        \* EnsembleRegressor.predict: accumulator
    model_preds,  \* optimize_ensemble: np.array(...) of line 310
    ret,          \* outcome of the last finished call
    printed,      \* the 'Average:' value printed by the report
    calls,        \* number of finished calls
    history,      \* per finished cross_validate call: what it did
    trace,        \* the running call: shuffled orders, folds, fits, calls
    stored,       \* collector: what each member predicted when it was stored
    metric_kind,  \* what the caller's metric returns: a scalar or several values
    weights,      \* evaluate_ensemble_weights: parameter weights
    maximize      \* evaluate_ensemble_weights: parameter maximize

vars == <<model, heap, x_in, y_in, folds, repeats, rng, np_random, pc, x, y,
          y_pred, score, r, i, ensemble, total, model_preds, ret, printed,
          calls, history, trace, stored, metric_kind, weights, maximize>>

(* ------------------------------ helpers ------------------------------- *)
Iota(n) == [j \in 1..n |-> j]

RECURSIVE SumSeq(_)
SumSeq(s) == IF s = <<>> THEN 0 ELSE s[1] + SumSeq(Tail(s))

Range(s) == {s[j] : j \in 1..Len(s)}

Abs(a) == IF a < 0 THEN -a ELSE a

RECURSIVE GCD(_, _)
GCD(a, b) == IF b = 0 THEN a ELSE GCD(b, a % b)

NaN == "nan"

\* a / b in floating point: exact fraction in lowest terms; 0.0 / 0 is nan
Divide(a, b) ==
    IF b = 0 THEN NaN
    ELSE LET g == GCD(Abs(a), b) IN
         IF g = 0 THEN <<0, 1>> ELSE <<a \div g, b \div g>>

\* np.zeros(n)
Zeros(n) == [j \in 1..n |-> 0]

\* a[ind] : fancy indexing by a sequence of positions
Take(a, ind) == [j \in 1..Len(ind) |-> a[ind[j]]]

\* an assignment that fills the front of the buffer: a[:len(ind)] = vals
put_front(a, ind, vals) == [p \in 1..Len(a) |-> IF p <= Len(vals) THEN vals[p] ELSE a[p]]

\* a[ind] = vals
Put(a, ind, vals) ==
    [p \in 1..Len(a) |->
        IF \E j \in 1..Len(ind) : ind[j] = p
        THEN vals[CHOOSE j \in 1..Len(ind) : ind[j] = p]
        ELSE a[p]]

None == [kind |-> "none"]
Raise(exc, line) == [kind |-> "raise", exc |-> exc, line |-> line]
Return(v) == [kind |-> "return", value |-> v]

(* ------------------- sklearn.utils.shuffle, KFold --------------------- *)
\* the permutations a RandomState may draw for n rows: the rotations of the
\* identity and its reversal
Rotate(n, k) == [j \in 1..n |-> ((j - 1 + k) % n) + 1]
Reverse(n) == [j \in 1..n |-> n + 1 - j]
ShufflePerms(n) == {Rotate(n, k) : k \in 0..(n - 1)} \cup {Reverse(n)}

\* a shuffle that draws from the process-wide random state
shuffle_ambient(a, random_state) == Take(a, rng[np_random % repeats])

\* shuffle(a, random_state=seed): a indexed by the permutation of RandomState(seed)
shuffle(a, random_state) == Take(a, rng[random_state])

\* KFold(n_splits=k).split on n rows, fold f (0-based): sizes and blocks
FoldSize(n, k, f) == (n \div k) + (IF f < n % k THEN 1 ELSE 0)

\* fold starts computed as if every fold had n // k rows
fold_start_even(n, k, f) == f * (n \div k)

RECURSIVE FoldStart(_, _, _)
FoldStart(n, k, f) == IF f = 0 THEN 0 ELSE FoldStart(n, k, f - 1) + FoldSize(n, k, f - 1)

test_ind(n, k, f) == [j \in 1..FoldSize(n, k, f) |-> FoldStart(n, k, f) + j]

train_ind(n, k, f) ==
    LET lo == FoldStart(n, k, f)
        hi == lo + FoldSize(n, k, f)
    IN  [j \in 1..(n - FoldSize(n, k, f)) |-> IF j <= lo THEN j ELSE j + (hi - lo)]

\* a splitter that accepts a single fold
kfold_error_lenient(n, k) == k < 1 \/ k > n

\* KFold(n_splits=k, ...): ValueError for k <= 1; .split(x): ValueError for k > n
KFoldError(n, k) == k <= 1 \/ k > n

(* ----------------------- the model capability ------------------------- *)
\* The stand-in estimator: fit keeps the sum of the training targets (and the
\* rows it saw); predict gives, per row, that sum plus the row's feature.
Unfitted == [w |-> 0, seen |-> {}]
Fitted(x_train, y_train) == [w |-> SumSeq(y_train), seen |-> Range(x_train)]

\* model.fit(x_train, y_train).  A plain estimator rebinds its own fitted
\* attribute; a pipeline refits, in place, the step object it refers to.
FitModel(m, x_train, y_train) ==
    IF m.kind = "estimator" THEN [m EXCEPT !.coef_ = Fitted(x_train, y_train)] ELSE m

FitHeap(m, h, x_train, y_train) ==
    IF m.kind = "pipeline" THEN [h EXCEPT ![m.steps] = Fitted(x_train, y_train)] ELSE h

FittedState(m, h) == IF m.kind = "pipeline" THEN h[m.steps] ELSE m.coef_

\* model.predict(x_test)
Predict(m, h, x_test) == [j \in 1..Len(x_test) |-> FittedState(m, h).w + x_test[j]]

(* ----------------------------- the metric ----------------------------- *)
\* metric(actual, predicted) -> scalar: over-prediction costs twice as much
metric(actual, predicted) ==
    SumSeq([j \in 1..Len(actual) |->
               IF predicted[j] > actual[j]
               THEN 2 * (predicted[j] - actual[j])
               ELSE actual[j] - predicted[j]])

\* What the caller's metric returns for metric(a, b): one number, or (a
\* metric that reports several values, such as one per output) an array
MetricKinds == {"scalar", "multi"}

metric_result(kind, a, b) ==
    IF kind = "scalar"
    THEN [type |-> "float64", val |-> metric(a, b)]
    ELSE [type |-> "ndarray", ndim |-> 1, val |-> <<metric(a, b), metric(b, a)>>]

\* score[r] = v: a float array's element takes a number; an array of several
\* elements cannot be stored in it (ValueError: setting an array element with
\* a sequence)
CanStore(v) == v.type = "float64"

\* np.mean(score) of a 1-d array: a numpy scalar
np_mean(a) == [type |-> "float64", val |-> Divide(SumSeq(a), Len(a))]

\* len(v): only arrays of at least one dimension have one
HasLen(v) == v.type = "ndarray" /\ v.ndim >= 1

(* ----------------------------- inputs --------------------------------- *)
Models == {[kind |-> "estimator", coef_ |-> Unfitted, steps |-> 0],
           [kind |-> "pipeline", coef_ |-> Unfitted, steps |-> 1]}

TargetChoices == {[j \in 1..NumRows |-> j], [j \in 1..NumRows |-> (j * j) % 3]}

NoTrace == [xs |-> <<>>, tests |-> <<>>, trains |-> <<>>, fits |-> 0, predicts |-> <<>>,
            models0 |-> <<>>, prov |-> <<>>, events |-> <<>>]

InitCommon ==
    /\ heap = [o \in {1} |-> Unfitted]
    /\ np_random = 0
    /\ pc = "idle"
    /\ x = <<>> /\ y = <<>> /\ y_pred = <<>> /\ score = <<>>
    /\ r = 0 /\ i = 0
    /\ total = <<>>
    /\ ret = None
    /\ printed = None
    /\ calls = 0
    /\ history = <<>>
    /\ trace = NoTrace
    /\ stored = <<>>
    /\ weights = <<>>
    /\ maximize = TRUE

InitData ==
    /\ model \in Models
    /\ y_in \in TargetChoices
    /\ x_in \in {Iota(NumRows), Iota(NumRows - 1)}
    /\ folds \in 0..MaxFolds
    /\ repeats \in 1..MaxRepeats
    /\ rng \in [0..(repeats - 1) -> ShufflePerms(NumRows)]
    /\ metric_kind \in MetricKinds
    /\ model_preds = None

\* Where each entry of the prediction buffer comes from: the repeat that wrote
\* it (-1: the zero initialisation), the row predicted, the rows the predicting
\* model was fitted on, and the value.
ZeroProv(n) == [j \in 1..n |-> [rep |-> -1, row |-> 0, seen |-> {}, val |-> 0]]

Written(m, h, rep, x_test) ==
    [j \in 1..Len(x_test) |->
        [rep |-> rep, row |-> x_test[j], seen |-> FittedState(m, h).seen,
         val |-> Predict(m, h, x_test)[j]]]

(* --------------------------- cross_validate --------------------------- *)
\* lines 112-113: the buffers; line 115: the repeat loop's head
CvCall ==
    /\ pc = "idle" /\ calls < MaxCalls
    /\ y_pred' = Zeros(Len(y_in))
    /\ score' = Zeros(repeats)
    /\ x' = x_in /\ y' = y_in
    /\ r' = 0 /\ i' = 0
    /\ trace' = [NoTrace EXCEPT !.prov = ZeroProv(Len(y_in))]
    /\ ret' = None /\ printed' = None
    /\ pc' = "cv_shuffle"
    /\ UNCHANGED <<model, heap, x_in, y_in, folds, repeats, rng, np_random,
                   ensemble, total, model_preds, calls, history, stored, metric_kind, weights, maximize>>

\* line 118: x, y = shuffle(x, y, random_state=r)
CvShuffle ==
    /\ pc = "cv_shuffle"
    /\ IF Len(x) # Len(y)
       THEN /\ ret' = Raise("ValueError", 118)
            /\ pc' = "idle" /\ calls' = calls + 1
            /\ history' = Append(history, [trace |-> trace, score |-> score, ret |-> ret'])
            /\ UNCHANGED <<x, y, trace>>
       ELSE /\ x' = shuffle(x, r)
            /\ y' = shuffle(y, r)
            /\ trace' = [trace EXCEPT !.xs = Append(@, x')]
            /\ pc' = "cv_split"
            /\ UNCHANGED <<ret, calls, history>>
    /\ UNCHANGED <<model, heap, x_in, y_in, folds, repeats, rng, np_random,
                   y_pred, score, r, i, ensemble, total, model_preds, printed, stored, metric_kind, weights, maximize>>

\* line 120: KFold(n_splits=folds, random_state=r + 10).split(x)
CvSplit ==
    /\ pc = "cv_split"
    /\ IF KFoldError(Len(x), folds)
       THEN /\ ret' = Raise("ValueError", 120)
            /\ pc' = "idle" /\ calls' = calls + 1
            /\ history' = Append(history, [trace |-> trace, score |-> score, ret |-> ret'])
            /\ UNCHANGED i
       ELSE /\ i' = 0
            /\ pc' = "cv_fit"
            /\ UNCHANGED <<ret, calls, history>>
    /\ UNCHANGED <<model, heap, x_in, y_in, folds, repeats, rng, np_random, x, y,
                   y_pred, score, r, ensemble, total, model_preds, printed, trace, stored, metric_kind, weights, maximize>>

\* lines 123-125: model.fit(x[train_ind], y[train_ind])
CvFit ==
    /\ pc = "cv_fit"
    /\ LET tr == train_ind(Len(x), folds, i) IN
         /\ model' = FitModel(model, Take(x, tr), Take(y, tr))
         /\ heap' = FitHeap(model, heap, Take(x, tr), Take(y, tr))
    /\ trace' = [trace EXCEPT !.fits = @ + 1,
                              !.tests = Append(@, test_ind(Len(x), folds, i)),
                              !.trains = Append(@, train_ind(Len(x), folds, i))]
    /\ pc' = "cv_predict"
    /\ UNCHANGED <<x_in, y_in, folds, repeats, rng, np_random, x, y, y_pred, score,
                   r, i, ensemble, total, model_preds, ret, printed, calls, history, stored, metric_kind, weights, maximize>>

\* line 126: y_pred[test_ind] = model.predict(x[test_ind]); next fold
CvPredict ==
    /\ pc = "cv_predict"
    /\ LET te == test_ind(Len(x), folds, i) IN
         /\ y_pred' = Put(y_pred, te, Predict(model, heap, Take(x, te)))
         /\ trace' = [trace EXCEPT !.prov = Put(@, te, Written(model, heap, r, Take(x, te)))]
    /\ i' = i + 1
    /\ pc' = IF i + 1 < folds THEN "cv_fit" ELSE "cv_score"
    /\ UNCHANGED <<model, heap, x_in, y_in, folds, repeats, rng, np_random, x, y,
                   score, r, ensemble, total, model_preds, ret, printed, calls,
                   history, stored, metric_kind, weights, maximize>>

\* line 127: score[r] = metric(y_pred, y); next repeat
CvScore ==
    /\ pc = "cv_score"
    /\ LET v == metric_result(metric_kind, y_pred, y) IN
       IF CanStore(v)
       THEN /\ score' = [score EXCEPT ![r + 1] = v.val]
            /\ r' = r + 1
            /\ pc' = IF r + 1 < repeats THEN "cv_shuffle" ELSE "cv_report"
            /\ UNCHANGED <<ret, calls, history>>
       ELSE /\ ret' = Raise("ValueError", 127)
            /\ pc' = "idle" /\ calls' = calls + 1
            /\ history' = Append(history, [trace |-> trace, score |-> score, ret |-> ret'])
            /\ UNCHANGED <<score, r>>
    /\ UNCHANGED <<model, heap, x_in, y_in, folds, repeats, rng, np_random, x, y,
                   y_pred, i, ensemble, total, model_preds, printed,
                   trace, stored, metric_kind, weights, maximize>>

\* line 133: return mean[0] if len(mean) > 1 else mean
cv_result(mean) ==
    IF HasLen(mean)
    THEN Return(IF Len(mean.val) > 1 THEN mean.val[1] ELSE mean.val)
    ELSE Raise("TypeError", 133)

\* lines 129-133: the report, then the return
CvReturn ==
    /\ pc = "cv_report"
    /\ printed' = np_mean(score).val
    /\ ret' = cv_result(np_mean(score))
    /\ pc' = "idle" /\ calls' = calls + 1
    /\ history' = Append(history, [trace |-> trace, score |-> score, ret |-> ret'])
    /\ UNCHANGED <<model, heap, x_in, y_in, folds, repeats, rng, np_random, x, y,
                   y_pred, score, r, i, ensemble, total, model_preds, trace, stored, metric_kind, weights, maximize>>

\* between calls: other code draws from, or reseeds, the process-wide random state
Ambient ==
    /\ pc = "idle" /\ calls > 0 /\ calls < MaxCalls
    /\ np_random' = 1 - np_random
    /\ UNCHANGED <<model, heap, x_in, y_in, folds, repeats, rng, pc, x, y, y_pred,
                   score, r, i, ensemble, total, model_preds, ret, printed, calls,
                   history, trace, stored, metric_kind, weights, maximize>>

InitCV == InitCommon /\ InitData /\ ensemble = <<>>

NextCV == CvCall \/ CvShuffle \/ CvSplit \/ CvFit \/ CvPredict \/ CvScore \/ CvReturn \/ Ambient

SpecCV == InitCV /\ [][NextCV]_vars

(* --------------------- get_cross_validation_models -------------------- *)
\* copy.copy(model): a new object with the same attribute bindings.  The copy
\* keeps the fitted attribute as bound at copy time and the same reference
\* to the step object (nothing behind a reference is copied).
copy_copy(m) == [kind |-> m.kind, coef_ |-> m.coef_, steps |-> m.steps]

\* a collector that stores a snapshot only for the first fold of a repeat
append_first_fold(models, m) == IF i = 0 THEN Append(models, copy_copy(m)) ELSE models

\* a collector that puts the newest snapshot first
insert_front(models, m) == <<copy_copy(m)>> \o models

\* line 178: ensemble.models.append(copy.copy(model))
append_copy(models, m) == Append(models, copy_copy(m))

\* lines 163-165: the buffers and the empty ensemble
GcvmCall ==
    /\ pc = "idle" /\ calls < MaxCalls
    /\ y_pred' = Zeros(Len(y_in))
    /\ score' = Zeros(repeats)
    /\ ensemble' = <<>>
    /\ stored' = <<>>
    /\ x' = x_in /\ y' = y_in
    /\ r' = 0 /\ i' = 0
    /\ trace' = NoTrace
    /\ ret' = None /\ printed' = None
    /\ pc' = "gcvm_shuffle"
    /\ UNCHANGED <<model, heap, x_in, y_in, folds, repeats, rng, np_random,
                   total, model_preds, calls, history, metric_kind, weights, maximize>>

\* line 170: x, y = shuffle(x, y, random_state=r)
GcvmShuffle ==
    /\ pc = "gcvm_shuffle"
    /\ IF Len(x) # Len(y)
       THEN /\ ret' = Raise("ValueError", 170)
            /\ pc' = "idle" /\ calls' = calls + 1
            /\ UNCHANGED <<x, y, trace>>
       ELSE /\ x' = shuffle(x, r)
            /\ y' = shuffle(y, r)
            /\ trace' = [trace EXCEPT !.xs = Append(@, x')]
            /\ pc' = "gcvm_split"
            /\ UNCHANGED <<ret, calls>>
    /\ UNCHANGED <<model, heap, x_in, y_in, folds, repeats, rng, np_random, y_pred,
                   score, r, i, ensemble, total, model_preds, printed, history, stored, metric_kind, weights, maximize>>

\* line 172: KFold(n_splits=folds, random_state=r + 10).split(x)
GcvmSplit ==
    /\ pc = "gcvm_split"
    /\ IF KFoldError(Len(x), folds)
       THEN /\ ret' = Raise("ValueError", 172)
            /\ pc' = "idle" /\ calls' = calls + 1
            /\ UNCHANGED i
       ELSE /\ i' = 0
            /\ pc' = "gcvm_fit"
            /\ UNCHANGED <<ret, calls>>
    /\ UNCHANGED <<model, heap, x_in, y_in, folds, repeats, rng, np_random, x, y,
                   y_pred, score, r, ensemble, total, model_preds, printed, history,
                   trace, stored, metric_kind, weights, maximize>>

\* lines 175-177: model.fit(x[train_ind], y[train_ind])
GcvmFit ==
    /\ pc = "gcvm_fit"
    /\ LET tr == train_ind(Len(x), folds, i) IN
         /\ model' = FitModel(model, Take(x, tr), Take(y, tr))
         /\ heap' = FitHeap(model, heap, Take(x, tr), Take(y, tr))
    /\ trace' = [trace EXCEPT !.fits = @ + 1,
                              !.tests = Append(@, test_ind(Len(x), folds, i)),
                              !.trains = Append(@, train_ind(Len(x), folds, i)),
                              !.events = Append(@, <<"fit", r, i>>)]
    /\ pc' = "gcvm_append"
    /\ UNCHANGED <<x_in, y_in, folds, repeats, rng, np_random, x, y, y_pred, score,
                   r, i, ensemble, total, model_preds, ret, printed, calls, history, stored, metric_kind, weights, maximize>>

\* line 178: ensemble.models.append(copy.copy(model))
GcvmAppend ==
    /\ pc = "gcvm_append"
    /\ ensemble' = append_copy(ensemble, model)
    /\ stored' = Append(stored, Predict(copy_copy(model), heap, x_in))
    /\ trace' = [trace EXCEPT !.events = Append(@, <<"append", r, i>>)]
    /\ pc' = "gcvm_predict"
    /\ UNCHANGED <<model, heap, x_in, y_in, folds, repeats, rng, np_random, x, y,
                   y_pred, score, r, i, total, model_preds, ret, printed, calls,
                   history, metric_kind, weights, maximize>>

\* line 179: y_pred[test_ind] = model.predict(x[test_ind]); next fold
GcvmPredict ==
    /\ pc = "gcvm_predict"
    /\ LET te == test_ind(Len(x), folds, i) IN
         y_pred' = Put(y_pred, te, Predict(model, heap, Take(x, te)))
    /\ trace' = [trace EXCEPT !.events = Append(@, <<"predict", r, i>>)]
    /\ i' = i + 1
    /\ pc' = IF i + 1 < folds THEN "gcvm_fit" ELSE "gcvm_score"
    /\ UNCHANGED <<model, heap, x_in, y_in, folds, repeats, rng, np_random, x, y,
                   score, r, ensemble, total, model_preds, ret, printed, calls,
                   history, stored, metric_kind, weights, maximize>>

\* line 180: score[r] = metric(y_pred, y); next repeat
GcvmScore ==
    /\ pc = "gcvm_score"
    /\ LET v == metric_result(metric_kind, y_pred, y) IN
       IF CanStore(v)
       THEN /\ score' = [score EXCEPT ![r + 1] = v.val]
            /\ r' = r + 1
            /\ pc' = IF r + 1 < repeats THEN "gcvm_shuffle" ELSE "gcvm_report"
            /\ UNCHANGED <<ret, calls>>
       ELSE /\ ret' = Raise("ValueError", 180)
            /\ pc' = "idle" /\ calls' = calls + 1
            /\ UNCHANGED <<score, r>>
    /\ UNCHANGED <<model, heap, x_in, y_in, folds, repeats, rng, np_random, x, y,
                   y_pred, i, ensemble, total, model_preds, printed,
                   history, trace, stored, metric_kind, weights, maximize>>

\* line 186: return ensemble
gcvm_result(models) == Return([type |-> "EnsembleRegressor", models |-> models])

\* lines 182-186: the report (the mean is printed), then the return
GcvmReturn ==
    /\ pc = "gcvm_report"
    /\ printed' = np_mean(score).val
    /\ ret' = gcvm_result(ensemble)
    /\ pc' = "idle" /\ calls' = calls + 1
    /\ UNCHANGED <<model, heap, x_in, y_in, folds, repeats, rng, np_random, x, y,
                   y_pred, score, r, i, ensemble, total, model_preds, history,
                   trace, stored, metric_kind, weights, maximize>>

InitCollect == InitCommon /\ InitData /\ ensemble = <<>>

NextCollect ==
    GcvmCall \/ GcvmShuffle \/ GcvmSplit \/ GcvmFit \/ GcvmAppend \/ GcvmPredict
    \/ GcvmScore \/ GcvmReturn

SpecCollect == InitCollect /\ [][NextCollect]_vars

\* a caller that uses both cross_validate and get_cross_validation_models
NextBoth ==
    CvCall \/ CvShuffle \/ CvSplit \/ CvFit \/ CvPredict \/ CvScore \/ CvReturn
    \/ NextCollect

SpecBoth == InitCV /\ [][NextBoth]_vars

(* ---------------------- EnsembleRegressor.predict --------------------- *)
\* ensembles built by the caller: EnsembleRegressor(models) of models fitted
\* elsewhere (each predicts its coefficient plus the row's feature)
FittedModels == {[kind |-> "estimator", coef_ |-> [w |-> c, seen |-> {}], steps |-> 0] :
                    c \in 1..MaxCoef}

SeqsUpTo(S, n) == UNION {[1..k -> S] : k \in 0..n}

InitEnsemble ==
    /\ InitCommon
    /\ model \in Models
    /\ ensemble \in SeqsUpTo(FittedModels, MaxMembers)
    /\ x_in \in {[j \in 1..n |-> j - 1] : n \in 1..NumRows}
    /\ y_in = [j \in 1..Len(x_in) |-> j]
    /\ folds = 2 /\ repeats = 1
    /\ rng = [s \in {0} |-> Iota(NumRows)]
    /\ metric_kind = "scalar"
    /\ model_preds = None

\* line 142: total = np.zeros(len(x))
PredictCall ==
    /\ pc = "idle" /\ calls < MaxCalls
    /\ total' = Zeros(Len(x_in))
    /\ i' = 0
    /\ trace' = [NoTrace EXCEPT !.models0 = ensemble]
    /\ ret' = None
    /\ pc' = "ep_loop"
    /\ UNCHANGED <<model, heap, x_in, y_in, folds, repeats, rng, np_random, x, y,
                   y_pred, score, r, ensemble, model_preds, printed, calls, history,
                   stored, metric_kind, weights, maximize>>

\* an accumulation that overwrites instead of adding
assign_into(t, p) == p

\* total += p, elementwise
add_into(t, p) == [j \in 1..Len(t) |-> t[j] + p[j]]

\* lines 143-144: for model in self.models: total += model.predict(x)
PredictAdd ==
    /\ pc = "ep_loop" /\ i < Len(ensemble)
    /\ total' = add_into(total, Predict(ensemble[i + 1], heap, x_in))
    /\ trace' = [trace EXCEPT !.predicts = Append(@, i + 1)]
    /\ i' = i + 1
    /\ UNCHANGED <<model, heap, x_in, y_in, folds, repeats, rng, np_random, pc, x, y,
                   y_pred, score, r, ensemble, model_preds, ret, printed, calls,
                   history, stored, metric_kind, weights, maximize>>

\* total /= k, elementwise
divide_all(t, k) == [j \in 1..Len(t) |-> Divide(t[j], k)]

\* lines 145-146: total /= len(self.models); return total
PredictReturn ==
    /\ pc = "ep_loop" /\ i = Len(ensemble)
    /\ total' = divide_all(total, Len(ensemble))
    /\ ret' = Return(total')
    /\ pc' = "idle" /\ calls' = calls + 1
    /\ UNCHANGED <<model, heap, x_in, y_in, folds, repeats, rng, np_random, x, y,
                   y_pred, score, r, i, ensemble, model_preds, printed, history,
                   trace, stored, metric_kind, weights, maximize>>

NextPredict == PredictCall \/ PredictAdd \/ PredictReturn

SpecPredict == InitEnsemble /\ [][NextPredict]_vars

(* -------------------------- optimize_ensemble ------------------------- *)
\* np.array(obj): a list becomes a 1-d array of its items; anything that is
\* not a sequence (a generator included) becomes a 0-d object array holding it
np_array(obj) ==
    IF obj.type = "list"
    THEN [type |-> "ndarray", ndim |-> 1, val |-> obj.val]
    ELSE [type |-> "ndarray", ndim |-> 0, val |-> obj]

\* (model.predict(x_test) for model in ensemble.models): nothing runs until
\* the generator is iterated
generator(models) == [type |-> "generator", over |-> models, consumed |-> FALSE]

\* line 310: model_preds = np.array((model.predict(x_test) for model in ensemble.models))
OptCall ==
    /\ pc = "idle" /\ calls < MaxCalls
    /\ model_preds' = np_array(generator(ensemble))
    /\ trace' = [NoTrace EXCEPT !.models0 = ensemble]
    /\ ret' = None
    /\ pc' = "opt_x0"
    /\ UNCHANGED <<model, heap, x_in, y_in, folds, repeats, rng, np_random, x, y,
                   y_pred, score, r, i, ensemble, total, printed, calls, history,
                   stored, metric_kind, weights, maximize>>

\* line 311: x0 = np.ones(len(model_preds)).  len() of a 0-d array raises, so
\* the statements after it (the bounds, minimize and the return of lines
\* 312-318) are never reached.
OptX0 ==
    /\ pc = "opt_x0"
    /\ IF HasLen(model_preds)
       THEN /\ pc' = "opt_minimize"
            /\ UNCHANGED <<ret, calls>>
       ELSE /\ ret' = Raise("TypeError", 311)
            /\ pc' = "idle" /\ calls' = calls + 1
    /\ UNCHANGED <<model, heap, x_in, y_in, folds, repeats, rng, np_random, x, y,
                   y_pred, score, r, i, ensemble, total, model_preds, printed,
                   history, trace, stored, metric_kind, weights, maximize>>

NextOpt == OptCall \/ OptX0

SpecOpt == InitEnsemble /\ [][NextOpt]_vars

(* ---------------------- evaluate_ensemble_weights --------------------- *)
\* x * y of the generator: a member's predictions times its weight
scale(v, w) == [j \in 1..Len(v) |-> v[j] * w]

\* an objective that forgets to negate
objective_plain(mx, m) == m

\* line 295: -1 * metric(...) if maximize else metric(...)
objective(mx, m) == IF mx THEN -1 * m ELSE m

\* the precomputed predictions of k members on the rows x_test: member c
\* predicts its coefficient c plus the row's feature
MemberPreds(k, x_test) ==
    [c \in 1..k |-> Predict([kind |-> "estimator", coef_ |-> [w |-> c, seen |-> {}], steps |-> 0],
                            heap, x_test)]

InitWeights ==
    /\ InitCommon
    /\ model \in Models
    /\ ensemble = <<>>
    /\ x_in \in {[j \in 1..n |-> j - 1] : n \in 1..NumRows}
    /\ y_in = [j \in 1..Len(x_in) |-> j]
    /\ folds = 2 /\ repeats = 1
    /\ rng = [s \in {0} |-> Iota(NumRows)]
    /\ metric_kind = "scalar"
    /\ \E k \in 1..MaxPreds : model_preds = MemberPreds(k, x_in)

\* line 294: sum(...) starts from 0, which broadcasts like np.zeros. The
\* minimizer calls the objective with one weight per member.
EwCall ==
    /\ pc = "idle" /\ calls < MaxCalls
    /\ weights' \in [1..Len(model_preds) -> 0..MaxWeight]
    /\ maximize' \in BOOLEAN
    /\ (calls > 0 => maximize' = maximize)
    /\ y_pred' = Zeros(Len(y_in))
    /\ i' = 0
    /\ ret' = None
    /\ history' = (IF history = <<>> THEN <<>> ELSE <<history[Len(history)]>>)
    /\ pc' = "ew_sum"
    /\ UNCHANGED <<model, heap, x_in, y_in, folds, repeats, rng, np_random, x, y,
                   score, r, ensemble, total, model_preds, printed, calls,
                   trace, stored, metric_kind>>

\* line 294: the next pair of zip(model_preds, weights) is multiplied and added
EwAdd ==
    /\ pc = "ew_sum"
    /\ i < Len(model_preds) /\ i < Len(weights)
    /\ y_pred' = add_into(y_pred, scale(model_preds[i + 1], weights[i + 1]))
    /\ i' = i + 1
    /\ UNCHANGED <<model, heap, x_in, y_in, folds, repeats, rng, np_random, pc, x, y,
                   score, r, ensemble, total, model_preds, ret, printed, calls,
                   history, trace, stored, metric_kind, weights, maximize>>

\* line 295: the metric of (y_test, y_pred), negated when maximizing. The
\* evaluation is kept next to the one before it, for comparison.
EwReturn ==
    /\ pc = "ew_sum"
    /\ ~(i < Len(model_preds) /\ i < Len(weights))
    /\ ret' = Return(objective(maximize, metric(y_in, y_pred)))
    /\ history' = Append(history, [weights |-> weights, value |-> ret'.value])
    /\ pc' = "idle" /\ calls' = calls + 1
    /\ UNCHANGED <<model, heap, x_in, y_in, folds, repeats, rng, np_random, x, y,
                   y_pred, score, r, i, ensemble, total, model_preds, printed,
                   trace, stored, metric_kind, weights, maximize>>

NextWeights == EwCall \/ EwAdd \/ EwReturn

SpecWeights == InitWeights /\ [][NextWeights]_vars

(* ====================================================================== *)
(*                               claims                                   *)
(* ====================================================================== *)
Finished == pc = "idle" /\ calls > 0

\* C1: for equal row counts, folds >= 2 and repeats >= 1, every finished
\* cross_validate call has returned the arithmetic mean of its per-repeat
\* scores (and has not ended in an error).
C1_ReturnsMeanOfScores ==
    \A k \in 1..Len(history) :
        (Len(x_in) = Len(y_in) /\ metric_kind = "scalar" /\ folds >= 2 /\ repeats >= 1)
            => history[k].ret = Return(Divide(SumSeq(history[k].score), repeats))

C3_StoredMembersIndependent ==
    \A k \in 1..Len(ensemble) : Predict(ensemble[k], heap, x_in) = stored[k]

\* C4: a collector call that returns normally returns the pair of the
\* ensemble and the mean of the per-repeat scores.
C4_ReturnsEnsembleAndMean ==
    (Finished /\ ret.kind = "return")
        => /\ ret.value.type = "tuple"
           /\ ret.value.ensemble = ensemble
           /\ ret.value.mean = Divide(SumSeq(score), repeats)

\* the per-row sum of the members' predictions, the members taken in order ord
RowSum(ord, j) == SumSeq([k \in 1..Len(ord) |-> Predict(ensemble[ord[k]], heap, x_in)[j]])

\* C5: for a non-empty ensemble of k members, predict returns per row the sum
\* of the members' predictions divided by k, whatever the order of the
\* members (k identical members give that member's own predictions); each
\* member's predict is called exactly once and the model list is unchanged.
C5_PredictIsMean ==
    (Finished /\ Len(ensemble) > 0) =>
        LET k == Len(ensemble) IN
        /\ ret.kind = "return"
        /\ Len(ret.value) = Len(x_in)
        /\ \A j \in 1..Len(x_in) :
              /\ ret.value[j] = Divide(RowSum(Iota(k), j), k)
              /\ ret.value[j] = Divide(RowSum(Reverse(k), j), k)
              /\ (\A a \in 1..k : ensemble[a] = ensemble[1])
                    => ret.value[j] = <<Predict(ensemble[1], heap, x_in)[j], 1>>
        /\ Len(trace.predicts) = k
        /\ Range(trace.predicts) = 1..k
        /\ ensemble = trace.models0

\* members predicting 1, 2 and 3 on one row give 2
C5_Witness ==
    /\ Finished
    /\ Len(ensemble) = 3 /\ Len(x_in) = 1
    /\ \A k \in 1..3 : Predict(ensemble[k], heap, x_in) = <<k>>
    /\ ret = Return(<< <<2, 1>> >>)

\* C6: predict on an ensemble without members ends in an error raised to
\* the caller, never in a returned array.
C6_EmptyEnsembleRaises ==
    (Finished /\ Len(ensemble) = 0) => ret.kind = "raise"

\* C7: for a non-empty ensemble of k members, optimize_ensemble calls each
\* member's predict exactly once and returns a weight vector of k entries.
C7_PredictsOnceReturnsWeights ==
    (Finished /\ Len(ensemble) > 0) =>
        /\ trace.predicts = Iota(Len(ensemble))
        /\ ret.kind = "return"
        /\ Len(ret.value) = Len(ensemble)

RECURSIVE FracSum(_)
FracSum(s) ==
    IF s = <<>> THEN <<0, 1>>
    ELSE LET t == FracSum(Tail(s)) IN
         Divide(s[1][1] * t[2] + t[1] * s[1][2], s[1][2] * t[2])

OnSimplex(w) ==
    /\ \A j \in 1..Len(w) : 0 <= w[j][1] /\ w[j][1] <= w[j][2]
    /\ FracSum(w) = <<1, 1>>

\* C8: the weight vector optimize_ensemble returns lies on the unit simplex:
\* every entry within [0, 1], the entries summing to 1.
C8_WeightsOnSimplex ==
    (Finished /\ Len(ensemble) > 0) => (ret.kind = "return" /\ OnSimplex(ret.value))

\* C10: cross_validate is deterministic: any two finished calls on the same
\* inputs made the same shuffles and fold assignments, computed the same
\* per-repeat scores and ended the same way, whatever happened to the
\* process-wide random state and to the model in between.
C10_Deterministic ==
    \A a, b \in 1..Len(history) :
        /\ history[a].trace.xs = history[b].trace.xs
        /\ history[a].trace.tests = history[b].trace.tests
        /\ history[a].score = history[b].score
        /\ history[a].ret = history[b].ret

C10_Witness ==
    /\ Len(history) = 2
    /\ np_random # 0
    /\ repeats >= 2
    /\ Len(history[2].trace.xs) = repeats
    /\ history[2].trace.xs[1] # history[2].trace.xs[2]
    /\ history[2].trace.fits = folds * repeats
    /\ history[2].ret.line = 133

\* the held-out positions of the k-th fold iteration of the running call
HeldOut(k) == Range(trace.tests[k])

\* C11: in every repeat of cross_validate and get_cross_validation_models
\* (2 <= folds <= rows) the held-out index sets of the fold iterations are
\* pairwise disjoint, their union over a repeat is the full index set, and
\* each iteration trains on exactly the complement of what it holds out.
C11_FoldsPartition ==
    LET n == Len(x)
        m == Len(trace.tests)
    IN  /\ Len(trace.trains) = m
        /\ \A k \in 1..m :
              /\ Range(trace.trains[k]) = (1..n) \ HeldOut(k)
              /\ Cardinality(HeldOut(k)) = Len(trace.tests[k])
              /\ Cardinality(Range(trace.trains[k])) = Len(trace.trains[k])
        /\ \A k1, k2 \in 1..m :
              (k1 # k2 /\ (k1 - 1) \div folds = (k2 - 1) \div folds)
                  => HeldOut(k1) \cap HeldOut(k2) = {}
        /\ m > 0 =>
              \A q \in 0..((m \div folds) - 1) :
                  UNION {HeldOut(q * folds + f) : f \in 1..folds} = 1..n

\* a collector repeat has run all its folds, of unequal sizes
C11_Witness ==
    /\ pc = "gcvm_score" /\ r >= 1
    /\ folds >= 2 /\ Len(x) % folds # 0
    /\ Len(trace.tests) = (r + 1) * folds

\* C12: a cross_validate or get_cross_validation_models call whose features
\* and targets differ in row count, or whose folds is below 2, ends in an
\* error raised to the caller: nothing is fitted, reported or returned.
C12_BadInputRaises ==
    (Finished /\ (Len(x_in) # Len(y_in) \/ folds < 2)) =>
        /\ ret.kind = "raise"
        /\ ret.exc = "ValueError"
        /\ printed = None
        /\ trace.fits = 0

C12_Witness ==
    /\ Finished
    /\ folds < 2 /\ Len(x_in) = Len(y_in)
    /\ ret = Raise("ValueError", 172)

\* the fold iteration of repeat q (0-based) that holds out position p
FoldOf(q, p) == CHOOSE k \in (q * folds + 1)..((q + 1) * folds) : p \in HeldOut(k)

\* C13: when cross_validate computes repeat r's score, every buffer entry
\* was written during repeat r, by the model fitted in that repeat on the
\* training rows of the entry's fold (which exclude the entry's row), for the
\* row at that position of the current shuffled order, and the target at
\* that position is that same row's target - also in repeats after the first.
C13_BufferFresh ==
    pc = "cv_score" =>
        \A p \in 1..Len(y_pred) :
            LET e == trace.prov[p] IN
            /\ e.rep = r
            /\ e.row = x[p]
            /\ x[p] \notin e.seen
            /\ e.seen = {x[q] : q \in Range(trace.trains[FoldOf(r, p)])}
            /\ y_pred[p] = e.val
            /\ y[p] = y_in[x[p]]

\* the second repeat's score is due, both shuffles having moved rows
C13_Witness ==
    /\ pc = "cv_score" /\ r >= 1
    /\ trace.xs[1] # x_in /\ x # trace.xs[1] /\ x # x_in

\* C14: every call of the caller's metric passes the actual targets first
\* and the predictions second: each per-repeat score of cross_validate and
\* get_cross_validation_models is metric(actual = y, predicted = y_pred).
C14_ActualFirst ==
    (pc \in {"cv_shuffle", "cv_report", "gcvm_shuffle", "gcvm_report"} /\ r > 0)
        => score[r] = metric(y, y_pred)

\* C17: with a metric that returns several values cross_validate still
\* completes: it raises nothing, every repeat is scored and the value
\* returned is the mean of the scores kept (the results' first elements).
C17_MultiMetricCompletes ==
    \A k \in 1..Len(history) :
        (Len(x_in) = Len(y_in) /\ metric_kind = "multi" /\ folds >= 2)
            => /\ history[k].ret.kind = "return"
               /\ Len(history[k].trace.xs) = repeats
               /\ history[k].ret.value = Divide(SumSeq(history[k].score), repeats)

\* the combination sum_i w[i] * model_preds[i], row by row
Combined(w) ==
    [j \in 1..Len(y_in) |-> SumSeq([c \in 1..Len(w) |-> w[c] * model_preds[c][j]])]

\* C15: evaluate_ensemble_weights combines the members' predictions as the
\* elementwise sum of weights[i] * model_preds[i] and returns
\* -metric(y_test, combined) when maximize is true, metric(y_test, combined)
\* otherwise; so of two weight vectors the one with the smaller returned
\* value has the larger metric exactly when maximize is true.
C15_WeightedObjective ==
    /\ (pc = "ew_sum" /\ i = Len(weights)) => y_pred = Combined(weights)
    /\ Finished =>
          ret = Return(IF maximize THEN 0 - metric(y_in, Combined(weights))
                                   ELSE metric(y_in, Combined(weights)))
    /\ \A a, b \in 1..Len(history) :
          LET ma == metric(y_in, Combined(history[a].weights))
              mb == metric(y_in, Combined(history[b].weights))
          IN  (history[a].value < history[b].value) <=> (IF maximize THEN ma > mb ELSE ma < mb)

\* two evaluations with different metric values, maximizing
C15_Witness ==
    /\ Finished /\ maximize
    /\ Len(history) = 2 /\ Len(weights) >= 2
    /\ history[1].value < history[2].value
    /\ history[1].weights # history[2].weights

\* the k-th step (1-based) of a collection that runs fit, append, predict in
\* every fold iteration, the iterations in (repeat, fold) order
StepKinds == <<"fit", "append", "predict">>
ExpectedEvent(k) ==
    LET t == (k - 1) \div Len(StepKinds) IN
    <<StepKinds[((k - 1) % Len(StepKinds)) + 1], t \div folds, t % folds>>

\* what the model fitted in iteration t (0-based) of the running call holds
FittedIn(t) ==
    LET rows == Take(trace.xs[(t \div folds) + 1], trace.trains[t + 1]) IN
    Fitted(rows, [j \in 1..Len(rows) |-> y_in[rows[j]]])

C16_Order ==
    /\ \A k \in 1..Len(trace.events) : trace.events[k] = ExpectedEvent(k)
    /\ Len(ensemble) = (Len(trace.events) + 1) \div Len(StepKinds)
    /\ \A t \in 0..(Len(ensemble) - 1) :
          /\ stored[t + 1] = [j \in 1..Len(x_in) |-> FittedIn(t).w + x_in[j]]
          /\ ensemble[t + 1].kind = "estimator" => ensemble[t + 1].coef_ = FittedIn(t)

C16_AppendOnly ==
    ensemble' # ensemble =>
        \/ pc = "gcvm_append" /\ pc' = "gcvm_predict"
             /\ Len(ensemble') = Len(ensemble) + 1
             /\ SubSeq(ensemble', 1, Len(ensemble)) = ensemble
             /\ ensemble'[Len(ensemble')] = copy_copy(model)
        \/ pc = "idle" /\ pc' = "gcvm_shuffle" /\ ensemble' = <<>>

\* C16: every fold iteration of get_cross_validation_models fits, then
\* appends one snapshot of the just-fitted model at the end of the list, then
\* predicts; the list changes by these appends only (and by the fresh empty
\* list of a new call), and member r * folds + i is the snapshot of fold i of
\* repeat r.
C16_FitAppendPredict == [](C16_Order) /\ [][C16_AppendOnly]_vars

\* the second repeat's last fold has been predicted, its snapshot stored
C16_Witness ==
    /\ pc = "gcvm_score" /\ r >= 1 /\ folds >= 2
    /\ Len(ensemble) = (r + 1) * folds
    /\ trace.events[Len(trace.events)] = <<"predict", r, folds - 1>>
    /\ model.kind = "estimator"
    /\ ensemble[1] # ensemble[Len(ensemble)]

====
